---- MODULE Spec2Model ----
(***************************************************************************)
(* Model of backend/agentsrc/extract_roi.py: the ROI extractor.            *)
(*                                                                         *)
(* An invocation is one run of main(): argument and path checks, image     *)
(* load, one extract_single_roi call per configured region, the debug      *)
(* overlay write, the JSON print.  Several invocations may run in the same *)
(* working directory; they share the file system and the module-level      *)
(* configuration (ROIS, pytesseract) and nothing else.                     *)
(*                                                                         *)
(* Everything the program does not decide itself (the decoded image, the   *)
(* outcome of every cv2 / pytesseract call) is an input fixed in the       *)
(* initial state, so every action below is deterministic.                  *)
(***************************************************************************)
EXTENDS Integers, Sequences, FiniteSets, TLC

VARIABLES
    ROIS,         \* the ROIS dict: sequence of [name, cfg] in insertion order
    pytesseract,  \* TRUE iff `import pytesseract` succeeded
    env,          \* per invocation: argv, path existence, imread result, call outcomes
    pc,           \* per invocation: position in main()
    img,          \* per invocation: the loaded image (None before the load)
    idx,          \* per invocation: 1-based position of the for loop over ROIS.items()
    results,      \* per invocation: the `results` dict of extract_all_rois
    debug_img,    \* per invocation: what has been drawn on the debug copy
    fs,           \* the working directory: path -> content of the file written last
    ret,          \* per invocation: the value extract_all_rois returned (None before)
    stdout,       \* per invocation: what main printed to stdout
    exit          \* per invocation: "running", "exit0" or "exit1"

vars == <<ROIS, pytesseract, env, pc, img, idx, results, debug_img, fs, ret, stdout, exit>>

-----------------------------------------------------------------------------
(* Bounds *)

MaxDim == 2           \* images are 1..MaxDim pixels wide and high
MaxTextLen == 4       \* the recognition engine returns at most this many characters
MaxInvocations == 2   \* concurrent runs of main() in one working directory

Invocations == 1..MaxInvocations
Coords == -1..(MaxDim + 1)

-----------------------------------------------------------------------------
(* Python values *)

None == [none |-> TRUE]

Max(a, b) == IF a >= b THEN a ELSE b
Min(a, b) == IF a <= b THEN a ELSE b

\* dict.get(key, default)
Get(d, key, default) == IF key \in DOMAIN d THEN d[key] ELSE default

\* truth value of `if roi_result:` -- None and the empty dict are false
Truthy(r) == r # None /\ DOMAIN r # {}

\* Strings are sequences of one-character strings.
Whitespace == {" ", "\n"}

RECURSIVE LStrip(_)
LStrip(t) == IF t = <<>> THEN t
             ELSE IF Head(t) \in Whitespace THEN LStrip(Tail(t)) ELSE t

RECURSIVE RStrip(_)
RStrip(t) == IF t = <<>> THEN t
             ELSE IF t[Len(t)] \in Whitespace THEN RStrip(SubSeq(t, 1, Len(t) - 1)) ELSE t

\* str.strip()
Strip(t) == RStrip(LStrip(t))

-----------------------------------------------------------------------------
(* extract_single_roi *)

\* The calls of the try block, in program order; the ones with a suffix are
\* the cv2.imwrite calls and the suffix is the tail of the path they write.
TrySteps == <<
    [op |-> "imwrite",              suffix |-> "_0_original.png"],
    [op |-> "resize",               suffix |-> ""],
    [op |-> "imwrite",              suffix |-> "_0b_upscaled.png"],
    [op |-> "cvtColor",             suffix |-> ""],
    [op |-> "imwrite",              suffix |-> "_1_gray.png"],
    [op |-> "fastNlMeansDenoising", suffix |-> ""],
    [op |-> "imwrite",              suffix |-> "_2_denoised.png"],
    [op |-> "clahe",                suffix |-> ""],
    [op |-> "imwrite",              suffix |-> "_3_contrast.png"],
    [op |-> "threshold",            suffix |-> ""],
    [op |-> "morphologyEx",         suffix |-> ""],
    [op |-> "imwrite",              suffix |-> "_4_final_ocr_input.png"],
    [op |-> "image_to_string",      suffix |-> ""] >>

OcrStep == Len(TrySteps)
WriteSteps == {k \in 1..Len(TrySteps) : TrySteps[k].suffix # ""}

\* f"roi_{name}{suffix}"
RoiDebugPath(name, k) == "roi_" \o name \o TrySteps[k].suffix

\* The outcome of the calls of one try block: s.raiseAt is the first call that
\* raises (0: none does), s.falseAt the imwrite calls that return False
\* without writing, s.text what image_to_string returns.
Raises(s, k) == s.raiseAt = k
Reached(s, k) == s.raiseAt = 0 \/ k <= s.raiseAt

\* str(e) of the exception the k-th call raised
ErrorText(k) == TrySteps[k].op \o " failed"

\* pytesseract.image_to_string(thresh, lang, config): opaque
ImageToString(s, config) == s.text

\* ClampBox without the upper clamp (min(w, x2), min(h, y2) dropped)
ClampBox_NoUpper(image, cfg) ==
    [x1 |-> Max(0, cfg.x1), y1 |-> Max(0, cfg.y1), x2 |-> cfg.x2, y2 |-> cfg.y2]

\* ClampBox clamping to the last pixel index instead of the image size
ClampBox_OffByOne(image, cfg) ==
    [x1 |-> Max(0, cfg.x1), y1 |-> Max(0, cfg.y1),
     x2 |-> Min(image.w - 1, cfg.x2), y2 |-> Min(image.h - 1, cfg.y2)]

\* lines 65-69: the clamped rectangle
ClampBox(image, cfg) ==
    [x1 |-> Max(0, cfg.x1), y1 |-> Max(0, cfg.y1),
     x2 |-> Min(image.w, cfg.x2), y2 |-> Min(image.h, cfg.y2)]

\* InvalidBox with > for >=: an empty rectangle passes
InvalidBox_Strict(b) == b.x1 > b.x2 \/ b.y1 > b.y2

\* lines 71-74: the test that makes extract_single_roi return None
InvalidBox(b) == b.x1 >= b.x2 \/ b.y1 >= b.y2

\* OcrKeys without the elif branch: an absent engine leaves no marker
OcrKeys_SilentWhenUnavailable(cfg, engine, s) ==
    IF Get(cfg, "ocr", FALSE) /\ engine
    THEN IF s.raiseAt # 0
         THEN "error" :> ErrorText(s.raiseAt)
         ELSE "value" :> Strip(ImageToString(s, "--psm 6"))
    ELSE <<>>

\* lines 93-168: the keys the OCR branch adds to result
OcrKeys(cfg, engine, s) ==
    LET do_ocr == Get(cfg, "ocr", FALSE)
        ocr_type == Get(cfg, "ocr_type", "text")
    IN  IF do_ocr /\ engine
        THEN IF s.raiseAt # 0
             THEN "error" :> ErrorText(s.raiseAt)
             ELSE IF ocr_type = "digits"
                  THEN "value" :> Strip(ImageToString(s, "--psm 7 -c tessedit_char_whitelist=0123456789/"))
                  ELSE "value" :> Strip(ImageToString(s, "--psm 6"))
        ELSE IF do_ocr /\ ~engine
             THEN "error" :> "pytesseract not installed"
             ELSE <<>>

\* the value extract_single_roi returns
ExtractSingleRoi(image, name, cfg, engine, s) ==
    LET b == ClampBox(image, cfg)
    IN  IF InvalidBox(b)
        THEN None
        ELSE OcrKeys(cfg, engine, s) @@
             [name |-> name, x1 |-> b.x1, y1 |-> b.y1, x2 |-> b.x2, y2 |-> b.y2,
              width |-> b.x2 - b.x1, height |-> b.y2 - b.y1]

\* len(range(n)[a:b]) for a, b >= 0: the extent of a numpy slice
SliceLen(n, a, b) == Max(0, Min(b, n) - Min(a, n))

\* line 80: the shape of roi = img[y1:y2, x1:x2]
CropShape(image, b) ==
    [w |-> SliceLen(image.w, b.x1, b.x2), h |-> SliceLen(image.h, b.y1, b.y2)]

\* line 104
ScaleFactor == 4

\* the shape of the image the k-th call of the try block writes: the crop
\* itself, then images derived from the upscaled crop
WrittenShape(image, b, k) ==
    IF k = 1 THEN CropShape(image, b)
    ELSE [w |-> ScaleFactor * CropShape(image, b).w, h |-> ScaleFactor * CropShape(image, b).h]

\* the files extract_single_roi writes when invocation i calls it
RoiWrites(i, image, name, cfg, engine, s) ==
    LET written == IF InvalidBox(ClampBox(image, cfg)) \/ ~(Get(cfg, "ocr", FALSE) /\ engine)
                   THEN {}
                   ELSE {k \in WriteSteps : Reached(s, k) /\ ~Raises(s, k) /\ k \notin s.falseAt}
    IN  [p \in {RoiDebugPath(name, k) : k \in written} |->
            LET k == CHOOSE k \in written : RoiDebugPath(name, k) = p
            IN  [by |-> i, what |-> TrySteps[k].suffix, drawn |-> <<>>,
                 shape |-> WrittenShape(image, ClampBox(image, cfg), k)]]

-----------------------------------------------------------------------------
(* extract_all_rois and main, one invocation i *)

\* lines 194-201
Colors == <<"green", "blue", "red", "cyan", "magenta", "yellow">>

DebugPath == "roi_debug.png"

\* lines 211-219: the rectangle and the label drawn for one reported region
Drawing(k, name, r) ==
    [box |-> <<r.x1, r.y1, r.x2, r.y2>>,
     color |-> Colors[((k - 1) % Len(Colors)) + 1],
     label |-> <<name, Get(r, "value", <<"?">>)>>]

\* ReturnValue with width and height taken in the order of img.shape
ReturnValue_Swapped(image, rois) ==
    [image_size |-> [width |-> image.h, height |-> image.w],
     debug_image |-> DebugPath,
     rois |-> rois]

\* lines 226-230: the dict extract_all_rois returns
ReturnValue(image, rois) ==
    [image_size |-> [width |-> image.w, height |-> image.h],
     debug_image |-> DebugPath,
     rois |-> rois]

\* lines 232-245: the argument count and Path(image_path).exists()
MainStart(i) ==
    /\ pc[i] = "main"
    /\ IF Len(env[i].argv) # 2 \/ ~env[i].exists
       THEN /\ pc' = [pc EXCEPT ![i] = "exited"]
            /\ exit' = [exit EXCEPT ![i] = "exit1"]
       ELSE /\ pc' = [pc EXCEPT ![i] = "imread"]
            /\ UNCHANGED exit
    /\ UNCHANGED <<ROIS, pytesseract, env, img, idx, results, debug_img, fs, ret, stdout>>

\* lines 182-203: cv2.imread, the None check, debug_img = img.copy(), results = {}
LoadImage(i) ==
    /\ pc[i] = "imread"
    /\ IF env[i].image = None
       THEN /\ pc' = [pc EXCEPT ![i] = "raised"]
            /\ UNCHANGED <<img, idx, results, debug_img>>
       ELSE /\ pc' = [pc EXCEPT ![i] = "loop"]
            /\ img' = [img EXCEPT ![i] = env[i].image]
            /\ idx' = [idx EXCEPT ![i] = 1]
            /\ results' = [results EXCEPT ![i] = <<>>]
            /\ debug_img' = [debug_img EXCEPT ![i] = <<>>]
    /\ UNCHANGED <<ROIS, pytesseract, env, fs, ret, stdout, exit>>

\* ExtractRegion without the try/except of extract_single_roi: a failure in
\* the OCR branch leaves the loop as an exception
ExtractRegion_AbortOnError(i) ==
    /\ pc[i] = "loop"
    /\ idx[i] <= Len(ROIS)
    /\ LET name == ROIS[idx[i]].name
           roi_config == ROIS[idx[i]].cfg
           s == env[i].scripts[idx[i]]
           roi_result == ExtractSingleRoi(img[i], name, roi_config, pytesseract, s)
       IN  /\ fs' = RoiWrites(i, img[i], name, roi_config, pytesseract, s) @@ fs
           /\ IF Truthy(roi_result) /\ "error" \in DOMAIN roi_result
              THEN /\ pc' = [pc EXCEPT ![i] = "raised"]
                   /\ UNCHANGED <<results, debug_img, idx>>
              ELSE /\ idx' = [idx EXCEPT ![i] = @ + 1]
                   /\ UNCHANGED pc
                   /\ IF Truthy(roi_result)
                      THEN /\ results' = [results EXCEPT ![i] = (name :> roi_result) @@ @]
                           /\ debug_img' = [debug_img EXCEPT
                                               ![i] = Append(@, Drawing(idx[i], name, roi_result))]
                      ELSE UNCHANGED <<results, debug_img>>
    /\ UNCHANGED <<ROIS, pytesseract, env, img, ret, stdout, exit>>

\* lines 205-219: one iteration of the loop over ROIS.items()
ExtractRegion(i) ==
    /\ pc[i] = "loop"
    /\ idx[i] <= Len(ROIS)
    /\ LET name == ROIS[idx[i]].name
           roi_config == ROIS[idx[i]].cfg
           s == env[i].scripts[idx[i]]
           roi_result == ExtractSingleRoi(img[i], name, roi_config, pytesseract, s)
       IN  /\ fs' = RoiWrites(i, img[i], name, roi_config, pytesseract, s) @@ fs
           /\ IF Truthy(roi_result)
              THEN /\ results' = [results EXCEPT ![i] = (name :> roi_result) @@ @]
                   /\ debug_img' = [debug_img EXCEPT
                                       ![i] = Append(@, Drawing(idx[i], name, roi_result))]
              ELSE UNCHANGED <<results, debug_img>>
    /\ idx' = [idx EXCEPT ![i] = @ + 1]
    /\ UNCHANGED <<ROIS, pytesseract, env, pc, img, ret, stdout, exit>>

\* lines 221-230: the overlay write and the return
SaveDebug(i) ==
    /\ pc[i] = "loop"
    /\ idx[i] > Len(ROIS)
    /\ IF env[i].dbg = "raise"
       THEN /\ pc' = [pc EXCEPT ![i] = "raised"]
            /\ UNCHANGED <<fs, ret>>
       ELSE /\ pc' = [pc EXCEPT ![i] = "returned"]
            /\ ret' = [ret EXCEPT ![i] = ReturnValue(img[i], results[i])]
            /\ fs' = IF env[i].dbg = "ok"
                     THEN (DebugPath :> [by |-> i, what |-> "overlay", drawn |-> debug_img[i],
                                         shape |-> img[i]]) @@ fs
                     ELSE fs
    /\ UNCHANGED <<ROIS, pytesseract, env, img, idx, results, debug_img, stdout, exit>>

\* lines 248-251: print(json.dumps(result)), then main returns
PrintResult(i) ==
    /\ pc[i] = "returned"
    /\ stdout' = [stdout EXCEPT ![i] = Append(@, ret[i])]
    /\ pc' = [pc EXCEPT ![i] = "exited"]
    /\ exit' = [exit EXCEPT ![i] = "exit0"]
    /\ UNCHANGED <<ROIS, pytesseract, env, img, idx, results, debug_img, fs, ret>>

\* HandleError without the sys.exit(1): main falls off its end
HandleError_ExitZero(i) ==
    /\ pc[i] = "raised"
    /\ pc' = [pc EXCEPT ![i] = "exited"]
    /\ exit' = [exit EXCEPT ![i] = "exit0"]
    /\ UNCHANGED <<ROIS, pytesseract, env, img, idx, results, debug_img, fs, ret, stdout>>

\* lines 253-257: except Exception: log, traceback, sys.exit(1)
HandleError(i) ==
    /\ pc[i] = "raised"
    /\ pc' = [pc EXCEPT ![i] = "exited"]
    /\ exit' = [exit EXCEPT ![i] = "exit1"]
    /\ UNCHANGED <<ROIS, pytesseract, env, img, idx, results, debug_img, fs, ret, stdout>>

Next ==
    \/ \E i \in Invocations : MainStart(i)
    \/ \E i \in Invocations : LoadImage(i)
    \/ \E i \in Invocations : ExtractRegion(i)
    \/ \E i \in Invocations : SaveDebug(i)
    \/ \E i \in Invocations : PrintResult(i)
    \/ \E i \in Invocations : HandleError(i)

-----------------------------------------------------------------------------
(* Inputs *)

\* the keys of the ROIS dict (lines 22-40): "mana", and the "health" example
Names == <<"mana", "health">>

Rects == [x1 : Coords, y1 : Coords, x2 : Coords, y2 : Coords]
Images == [w : 1..MaxDim, h : 1..MaxDim]
FullImage == [w |-> MaxDim, h |-> MaxDim]

Alphabet == {"3", "1", "0", "/", "O", "\n"}
Texts == UNION {[1..n -> Alphabet] : n \in 0..MaxTextLen}

OkScript == [raiseAt |-> 0, falseAt |-> {}, text |-> <<"7", "\n">>]

\* every first raising call; without one, no, one or all imwrite calls returning False
FlowScripts ==
    {[OkScript EXCEPT !.raiseAt = k] : k \in 1..OcrStep}
    \cup {[OkScript EXCEPT !.falseAt = f] : f \in {{}, WriteSteps} \cup {{k} : k \in WriteSteps}}

TextScripts == {[OkScript EXCEPT !.text = t] : t \in Texts}

Launch(image, scripts, dbg) ==
    [argv |-> <<"extract_roi.py", "shot.png">>, exists |-> TRUE,
     image |-> image, scripts |-> scripts, dbg |-> dbg]

\* main() started with a wrong argument count, or on a path that does not exist
BadLaunches(n) ==
    {[Launch(FullImage, [k \in 1..n |-> OkScript], "ok") EXCEPT !.argv = a, !.exists = e] :
        <<a, e>> \in {<<<<"extract_roi.py">>, TRUE>>, <<<<"extract_roi.py", "shot.png">>, FALSE>>}}

Idle == Launch(None, <<>>, "ok")

\* the part of the state every family starts from: the invocations of `started`
\* are at the top of main(), the others never run
Start(started) ==
    /\ pc = [i \in Invocations |-> IF i \in started THEN "main" ELSE "off"]
    /\ img = [i \in Invocations |-> None]
    /\ idx = [i \in Invocations |-> 0]
    /\ results = [i \in Invocations |-> <<>>]
    /\ debug_img = [i \in Invocations |-> <<>>]
    /\ fs = <<>>
    /\ ret = [i \in Invocations |-> None]
    /\ stdout = [i \in Invocations |-> <<>>]
    /\ exit = [i \in Invocations |-> "running"]

\* does extract_single_roi consult the script for this region?
Consults(cfg, engine) == Get(cfg, "ocr", FALSE) /\ engine

Region(k, cfg) == [name |-> Names[k], cfg |-> cfg]

(* Geometry family: one region with any rectangle over Coords, alone or next
   to a sample region, on every image size. *)
OcrOn == [ocr |-> TRUE, ocr_type |-> "digits"]
RichCfgs == Rects \cup {OcrOn @@ r : r \in Rects}
SampleCfgs == {[x1 |-> 0, y1 |-> 0, x2 |-> 1, y2 |-> 1, ocr |-> TRUE, ocr_type |-> "text"],
               [x1 |-> 1, y1 |-> 0, x2 |-> 1, y2 |-> 1, ocr |-> TRUE]}
GeomROIS ==
    {<<>>}
    \cup {<<Region(1, r)>> : r \in RichCfgs}
    \cup {<<Region(1, r), Region(2, c)>> : r \in RichCfgs, c \in SampleCfgs}
    \cup {<<Region(1, c), Region(2, r)>> : r \in RichCfgs, c \in SampleCfgs}

InitGeom ==
    /\ ROIS \in GeomROIS
    /\ pytesseract = TRUE
    /\ \E e \in {Launch(im, [k \in 1..Len(ROIS) |-> OkScript], "ok") : im \in Images \cup {None}}
               \cup (IF ROIS = <<>> THEN BadLaunches(0) ELSE {}) :
          env = [i \in Invocations |-> IF i = 1 THEN e ELSE Idle]
    /\ Start({1})

(* Flow family: up to two regions on the full image, every outcome of the
   calls of the try block, the engine present or absent, every outcome of the
   overlay write. *)
FlowCfgs == {[x1 |-> 0, y1 |-> 0, x2 |-> 1, y2 |-> 1],
             [x1 |-> 0, y1 |-> 0, x2 |-> 1, y2 |-> 1, ocr |-> FALSE, ocr_type |-> "digits"],
             [x1 |-> 0, y1 |-> 0, x2 |-> 1, y2 |-> 1, ocr |-> TRUE],
             [x1 |-> 0, y1 |-> 0, x2 |-> 1, y2 |-> 1, ocr |-> TRUE, ocr_type |-> "digits"],
             [x1 |-> 1, y1 |-> 0, x2 |-> 0, y2 |-> 1, ocr |-> TRUE, ocr_type |-> "text"]}
FlowROIS == UNION {[1..n -> FlowCfgs] : n \in 0..Len(Names)}

ScriptsFor(rois, engine, choice) ==
    {sc \in [1..Len(rois) -> choice \cup {OkScript}] :
        \A k \in 1..Len(rois) : ~Consults(rois[k].cfg, engine) => sc[k] = OkScript}

InitFlow ==
    /\ \E cs \in FlowROIS : ROIS = [k \in 1..Len(cs) |-> Region(k, cs[k])]
    /\ pytesseract \in BOOLEAN
    /\ \E e \in {Launch(im, sc, d) : im \in {FullImage, None},
                                      sc \in ScriptsFor(ROIS, pytesseract, FlowScripts),
                                      d \in {"ok", "false", "raise"}}
               \cup (IF ROIS = <<>> THEN BadLaunches(0) ELSE {}) :
          env = [i \in Invocations |-> IF i = 1 THEN e ELSE Idle]
    /\ Start({1})

(* Text family: one region with OCR in either mode, the engine returning any
   string over Alphabet of at most MaxTextLen characters. *)
InitText ==
    /\ \E t \in {"text", "digits"} :
          ROIS = <<Region(1, [x1 |-> 0, y1 |-> 0, x2 |-> 1, y2 |-> 1, ocr |-> TRUE, ocr_type |-> t])>>
    /\ pytesseract = TRUE
    /\ \E s \in TextScripts :
          env = [i \in Invocations |-> IF i = 1 THEN Launch(FullImage, <<s>>, "ok") ELSE Idle]
    /\ Start({1})

(* Concurrent family: every invocation runs, each on its own image, in the
   same working directory. *)
ConcROIS == {<<>>, <<Region(1, [x1 |-> 0, y1 |-> 0, x2 |-> 1, y2 |-> 1, ocr |-> TRUE])>>}

InitConc ==
    /\ ROIS \in ConcROIS
    /\ pytesseract = TRUE
    /\ env \in [Invocations ->
                  {Launch(im, [k \in 1..Len(ROIS) |-> OkScript], d) :
                      im \in {FullImage, None}, d \in {"ok", "false"}}
                  \cup BadLaunches(Len(ROIS))]
    /\ Start(Invocations)

Init == InitGeom \/ InitFlow \/ InitText \/ InitConc

Spec == Init /\ [][Next]_vars
SpecGeom == InitGeom /\ [][Next]_vars
SpecOcr == (InitFlow \/ InitText) /\ [][Next]_vars
SpecConc == InitConc /\ [][Next]_vars

-----------------------------------------------------------------------------
(* Properties.  They are stated on the inputs (ROIS, env) and on what an
   invocation produced (results, ret, stdout, exit, fs), with the clamping
   and the filtering spelled out again rather than taken from the operators
   above. *)

Returned(i) == ret[i] # None

\* extract_single_roi has been called for every region
LoopDone(i) == img[i] # None /\ idx[i] > Len(ROIS)

\* imread was called and returned None
DecodeFailed(i) ==
    /\ Len(env[i].argv) = 2 /\ env[i].exists /\ env[i].image = None
    /\ pc[i] \notin {"off", "main", "imread"}

Lo(v) == IF v < 0 THEN 0 ELSE v
Hi(v, m) == IF v > m THEN m ELSE v
Degenerate(c, im) == Lo(c.x1) >= Hi(c.x2, im.w) \/ Lo(c.y1) >= Hi(c.y2, im.h)
InBounds(c, im) == 0 <= c.x1 /\ c.x1 < c.x2 /\ c.x2 <= im.w
                   /\ 0 <= c.y1 /\ c.y1 < c.y2 /\ c.y2 <= im.h
Requested(c) == "ocr" \in DOMAIN c /\ c.ocr
DigitsMode(c) == "ocr_type" \in DOMAIN c /\ c.ocr_type = "digits"
HasValue(r) == "value" \in DOMAIN r
HasError(r) == "error" \in DOMAIN r
RegionOf(k) == ROIS[k].name
Regions == 1..Len(ROIS)

\* C1: a region whose rectangle is degenerate after clamping has no entry in
\* the returned map, every other configured region has one, and no entry has
\* a zero-size crop (as reported, or as saved).
C1_DegenerateOmitted ==
    \A i \in Invocations : Returned(i) =>
        /\ \A k \in Regions :
              Degenerate(ROIS[k].cfg, env[i].image) <=> RegionOf(k) \notin DOMAIN ret[i].rois
        /\ \A n \in DOMAIN ret[i].rois :
              ret[i].rois[n].width > 0 /\ ret[i].rois[n].height > 0
        /\ \A p \in DOMAIN fs : fs[p].shape.w > 0 /\ fs[p].shape.h > 0

\* Two regions, one made degenerate by the clamping itself, the other reported.
C1_Witness ==
    \E i \in Invocations : \E k, j \in Regions :
        /\ Returned(i)
        /\ ROIS[k].cfg.x1 < ROIS[k].cfg.x2 /\ ROIS[k].cfg.y1 < ROIS[k].cfg.y2
        /\ Degenerate(ROIS[k].cfg, env[i].image)
        /\ RegionOf(k) \notin DOMAIN ret[i].rois
        /\ j > k /\ RegionOf(j) \in DOMAIN ret[i].rois

\* C2: a reported region for which OCR was requested carries exactly one of
\* value and error; one for which it was not requested carries neither.
C2_ValueXorError ==
    \A i \in Invocations : \A k \in Regions :
        RegionOf(k) \in DOMAIN results[i] =>
            LET r == results[i][RegionOf(k)]
            IN  IF Requested(ROIS[k].cfg)
                THEN HasValue(r) # HasError(r)
                ELSE ~HasValue(r) /\ ~HasError(r)

\* One run reports a value for one region, an error raised during
\* preprocessing for another, or neither for a region without OCR.
C2_Witness ==
    \E i \in Invocations : \E k, j \in Regions :
        /\ Returned(i)
        /\ {RegionOf(k), RegionOf(j)} \subseteq DOMAIN ret[i].rois
        /\ Requested(ROIS[k].cfg) /\ env[i].scripts[k].raiseAt \in 1..(OcrStep - 1)
        /\ HasError(ret[i].rois[RegionOf(k)]) /\ ~HasValue(ret[i].rois[RegionOf(k)])
        /\ \/ Requested(ROIS[j].cfg) /\ HasValue(ret[i].rois[RegionOf(j)])
           \/ ~Requested(ROIS[j].cfg) /\ ~HasValue(ret[i].rois[RegionOf(j)])

\* A region fails when OCR is requested for it and the engine is absent or a
\* call of its try block raises.
Failing(i, k) ==
    Requested(ROIS[k].cfg) /\ (~pytesseract \/ env[i].scripts[k].raiseAt # 0)

\* what extract_single_roi returns for region k when nothing fails
NoFailureResult(i, k) ==
    ExtractSingleRoi(img[i], RegionOf(k), ROIS[k].cfg, TRUE,
                     [env[i].scripts[k] EXCEPT !.raiseAt = 0])

\* C3: OCR failures stay in their region.  Whatever regions fail, the loop
\* runs to its end and extract_all_rois returns exactly when it would with no
\* failure (the overlay write is the only other call that can raise); every
\* region with a valid rectangle is in the map; a failing region carries an
\* error and no value; a non-failing one is as when no region fails.
C3_FailureIsolated ==
    \A i \in Invocations :
        /\ (img[i] # None /\ pc[i] = "raised") => LoopDone(i) /\ env[i].dbg = "raise"
        /\ (img[i] # None /\ pc[i] \in {"returned", "exited"}) =>
              LoopDone(i) /\ (Returned(i) <=> env[i].dbg # "raise")
        /\ LoopDone(i) =>
              /\ \A k \in Regions : ~Degenerate(ROIS[k].cfg, img[i]) =>
                    /\ RegionOf(k) \in DOMAIN results[i]
                    /\ LET r == results[i][RegionOf(k)]
                       IN  IF Failing(i, k)
                           THEN HasError(r) /\ ~HasValue(r)
                           ELSE /\ r = NoFailureResult(i, k)
                                /\ ~HasError(r)
                                /\ Requested(ROIS[k].cfg) => HasValue(r)

\* The recognition call of the first region raised, the second region was
\* recognised, and extract_all_rois returned both.
C3_Witness ==
    \E i \in Invocations :
        /\ Returned(i) /\ Len(ROIS) = 2
        /\ {RegionOf(1), RegionOf(2)} \subseteq DOMAIN ret[i].rois
        /\ pytesseract /\ Requested(ROIS[1].cfg) /\ env[i].scripts[1].raiseAt = OcrStep
        /\ HasError(ret[i].rois[RegionOf(1)])
        /\ Requested(ROIS[2].cfg) /\ HasValue(ret[i].rois[RegionOf(2)])

DigitChars == {"0", "1", "2", "3", "4", "5", "6", "7", "8", "9", "/"}

RECURSIVE OnlyDigitChars(_)
OnlyDigitChars(t) ==
    IF t = <<>> THEN t
    ELSE IF Head(t) \in DigitChars
         THEN <<Head(t)>> \o OnlyDigitChars(Tail(t))
         ELSE OnlyDigitChars(Tail(t))

\* C4: in digits mode the stored value is the engine's output with every
\* character outside 0123456789/ discarded.
C4_DigitsFiltered ==
    \A i \in Invocations : \A k \in Regions :
        (/\ RegionOf(k) \in DOMAIN results[i]
         /\ Requested(ROIS[k].cfg) /\ DigitsMode(ROIS[k].cfg)
         /\ HasValue(results[i][RegionOf(k)])) =>
            LET v == results[i][RegionOf(k)].value
            IN  /\ \A c \in 1..Len(v) : v[c] \in DigitChars
                /\ v = OnlyDigitChars(env[i].scripts[k].text)

\* C5: every reported box lies inside the image, is not empty, and width and
\* height are its extent.
C5_ReportedBoxInBounds ==
    \A i \in Invocations : \A n \in DOMAIN results[i] :
        LET r == results[i][n]
        IN  /\ 0 <= r.x1 /\ r.x1 < r.x2 /\ r.x2 <= env[i].image.w
            /\ 0 <= r.y1 /\ r.y1 < r.y2 /\ r.y2 <= env[i].image.h
            /\ r.width = r.x2 - r.x1
            /\ r.height = r.y2 - r.y1

\* A rectangle that sticks out of the image on every side is reported.
C5_Witness ==
    \E i \in Invocations : \E k \in Regions :
        /\ Returned(i) /\ RegionOf(k) \in DOMAIN ret[i].rois
        /\ ROIS[k].cfg.x1 < 0 /\ ROIS[k].cfg.y1 < 0
        /\ ROIS[k].cfg.x2 > env[i].image.w /\ ROIS[k].cfg.y2 > env[i].image.h

\* C6: a rectangle inside the image is reported unchanged, with the width and
\* height of the configured rectangle, and the crop saved for it has that
\* shape; clamping any reported box again gives the same box.  (In the
\* geometry family every imwrite call succeeds.)
C6_InBoundsUnchanged ==
    \A i \in Invocations : Returned(i) =>
        /\ \A k \in Regions : InBounds(ROIS[k].cfg, env[i].image) =>
              /\ RegionOf(k) \in DOMAIN ret[i].rois
              /\ LET r == ret[i].rois[RegionOf(k)]
                     c == ROIS[k].cfg
                 IN  /\ <<r.x1, r.y1, r.x2, r.y2>> = <<c.x1, c.y1, c.x2, c.y2>>
                     /\ r.width = c.x2 - c.x1
                     /\ r.height = c.y2 - c.y1
                     /\ Requested(c) =>
                           /\ RoiDebugPath(RegionOf(k), 1) \in DOMAIN fs
                           /\ fs[RoiDebugPath(RegionOf(k), 1)].shape =
                                  [w |-> c.x2 - c.x1, h |-> c.y2 - c.y1]
        /\ \A n \in DOMAIN ret[i].rois :
              LET r == ret[i].rois[n]
              IN  ClampBox(env[i].image, r) = [x1 |-> r.x1, y1 |-> r.y1, x2 |-> r.x2, y2 |-> r.y2]

\* A rectangle inside a non-square image and touching its right and bottom
\* edges is reported.
C6_Witness ==
    \E i \in Invocations : \E k \in Regions :
        /\ Returned(i) /\ InBounds(ROIS[k].cfg, env[i].image)
        /\ env[i].image.w # env[i].image.h
        /\ ROIS[k].cfg.x2 = env[i].image.w /\ ROIS[k].cfg.y2 = env[i].image.h
        /\ ROIS[k].cfg.x2 - ROIS[k].cfg.x1 > 1
        /\ RegionOf(k) \in DOMAIN ret[i].rois
        /\ Requested(ROIS[k].cfg) /\ RoiDebugPath(RegionOf(k), 1) \in DOMAIN fs

\* C7: when imread returns None, extract_all_rois raises with no region
\* processed and no file written, and main prints nothing and exits 1.
C7_DecodeFailureIsHard ==
    \A i \in Invocations : DecodeFailed(i) =>
        /\ pc[i] \in {"raised", "exited"}
        /\ ret[i] = None
        /\ idx[i] = 0 /\ results[i] = <<>>
        /\ \A p \in DOMAIN fs : fs[p].by # i
        /\ stdout[i] = <<>>
        /\ exit[i] # "exit0"
        /\ pc[i] = "exited" => exit[i] = "exit1"

\* An invocation whose image failed to decode, with regions configured, has exited.
C7_Witness ==
    \E i \in Invocations : DecodeFailed(i) /\ pc[i] = "exited" /\ Len(ROIS) > 0

ResultKeys == {"image_size", "debug_image", "rois"}

WritesSucceed(s) ==
    IF s.raiseAt \in WriteSteps
    THEN [s EXCEPT !.raiseAt = 0, !.falseAt = {}]
    ELSE [s EXCEPT !.falseAt = {}]

\* C9: the region map is the one obtained when every debug write succeeds,
\* and no debug write that fails aborts the invocation: once the image is
\* decoded, main prints the result and exits 0.
C9_DebugDecoupled ==
    \A i \in Invocations : LoopDone(i) =>
        /\ pc[i] = "exited" => exit[i] = "exit0" /\ stdout[i] = <<ret[i]>>
        /\ \A k \in Regions : RegionOf(k) \in DOMAIN results[i] =>
              results[i][RegionOf(k)] =
                  ExtractSingleRoi(img[i], RegionOf(k), ROIS[k].cfg, pytesseract,
                                   WritesSucceed(env[i].scripts[k]))

\* C10: once every invocation has finished, the file at the debug_image path
\* of a result, and at each intermediate path an invocation wrote, is the one
\* that invocation wrote.
C10_ArtifactsNotShared ==
    (\A i \in Invocations : pc[i] = "exited") =>
        \A i \in Invocations : Returned(i) =>
            /\ env[i].dbg = "ok" => fs[ret[i].debug_image].by = i
            /\ \A k \in Regions : \A w \in WriteSteps :
                  (/\ RegionOf(k) \in DOMAIN ret[i].rois
                   /\ Requested(ROIS[k].cfg) /\ pytesseract
                   /\ Reached(env[i].scripts[k], w) /\ ~Raises(env[i].scripts[k], w)
                   /\ w \notin env[i].scripts[k].falseAt)
                  => fs[RoiDebugPath(RegionOf(k), w)].by = i

====
